---- MODULE Spec2Model ----
(***************************************************************************)
(* Control plane of the skyscale function-as-a-service platform:           *)
(*   - scheduler  (control-plane/scheduler/scheduler.go)                   *)
(*   - VM manager (package vm: warm pool, GetVM, ReturnVM, terminateVM)    *)
(*   - result reconciler (package api: handleResultHandler)                *)
(*   - state manager (control-plane/state/state.go: execution / VM rows)   *)
(*   - function registry (control-plane/registry/registry.go: lookup and   *)
(*     deletion of the invoked function)                                   *)
(*                                                                         *)
(* Time is a coarse clock `now` that counts periods longer than the        *)
(* monitor's five minutes: a Tick is the passing of more than five         *)
(* minutes, anything shorter leaves `now` unchanged.  Execution ids and    *)
(* VM ids are fresh UUIDs in the code and consecutive naturals here.       *)
(***************************************************************************)
EXTENDS Naturals, Integers, Sequences, FiniteSets, TLC

----------------------------------------------------------------------------
(* Bounds of the model *)

\* number of invocations submitted in one behaviour
MaxExec == 2

\* number of VMs createVM can boot before every further creation fails
MaxVMs == 2

\* the same for PoolSpec, where the warm pool is driven to its capacity
PoolVMs == 6

\* last value of the clock
MaxClock == 1

\* result reports the agents post in one behaviour
MaxReports == 2

\* iterations of the polling loop (maxRetries is 30 in the source; the loop,
\* its exits and its exhaustion branch are kept, the count is bounded)
maxRetries == 1

\* error answers counted per endpoint ("function not found", "Execution not found")
MaxNotFound == 1

\* POST /api/functions requests in one behaviour of RegisterSpec
MaxRegistrations == 3

\* createVM calls in one behaviour of CreateSpec
MaxCreates == 3

\* VM status reports handled in one behaviour of RaceSpec
MaxStatusReports == 1

----------------------------------------------------------------------------
(* Program constants *)

\* warmPoolSize and the capacity of the warmPool channel
warmPoolSize == 5

\* monitorExecutions: now.Sub(context.StartTime) > 5*time.Minute; in periods of
\* the clock five minutes are no full period
FiveMinutes == 0

\* capacity of asyncQueue
asyncQueueSize == 100

ExecIds == 1..MaxExec
VMIds   == 1..(IF MaxVMs > PoolVMs THEN MaxVMs ELSE PoolVMs)

\* VMID "" of an execution that has no VM
NoVMID == 0

\* zero time.Time
ZeroTime == 0

\* ExecutionResult returned to the caller of ScheduleExecution
NoResult  == 0      \* the call has not returned
NilResult == -1     \* (nil, err) returned

\* duration_ms values an agent reports
AgentDurations == {1}

\* result reports (api.ExecutionResult) an agent can post for a request
Reports ==
    [StatusCode : {200}, Output : {"out"}, ErrorMessage : {""}, Duration : AgentDurations]
    \cup
    [StatusCode : {500}, Output : {""}, ErrorMessage : {"err"}, Duration : AgentDurations]

NoReport == [StatusCode |-> 0, Output |-> "", ErrorMessage |-> "", Duration |-> 0]

\* registration requests; each makes its own function id (a fresh UUID)
RegistrationIds == 1..MaxRegistrations

\* names in registration requests
FunctionNames == {"f", "g"}

\* bodies of POST /api/functions: one the JSON decoder rejects, and decoded
\* FunctionRequests, where Name is "" when the body has no name field
RequestBodies ==
    [Decodes : {FALSE}, Name : {""}]
    \cup
    [Decodes : {TRUE}, Name : FunctionNames \cup {""}]

NoRegistration == [pc |-> "idle", Name |-> "", Status |-> 0, Error |-> ""]

\* an agent that has not been sent the request
NoAgent == [pc |-> "idle", attempts |-> 0, response |-> 0]

\* what sendResult gets from its POST /api/results: 200, 404 or 500 from
\* handleResultHandler, or an error of client.Post (NoResponse)
NoResponse == -1
ResultResponses == {200, 404, 500, NoResponse}

\* API keys that GenerateAPIKey hands out or a client makes up
Keys == {"k1", "k2"}

\* Authorization headers as strings.Split(header, " ") sees them; <<>> is the
\* request without the header
Headers ==
    {<<>>, <<"Bearer">>}
    \cup {<<"Bearer", k>> : k \in Keys}
    \cup {<<"Basic", k>> : k \in Keys}
    \cup {<<"Bearer", k, "x">> : k \in Keys}

\* the routes of the API, one per group of RegisterRoutes
Routes == {"health", "auth/api-key", "functions", "executions", "vms",
           "vms/register", "results"}

\* no request served yet
NoRequest == [route |-> "", header |-> <<>>, key |-> "never", status |-> 0, handler |-> FALSE]

\* the mutexes: Scheduler.mu and VMManager.mu
Locks == {"scheduler", "vm"}

\* goroutines that take them: the timeout monitor, two invocations, a
\* get_result request and the pool refiller
Threads == {"monitor", "invoke1", "invoke2", "getResult", "refill"}

NoOwner == "none"

\* a goroutine between two passes: no lock operation ahead
NoProgram == <<>>

\* no registerVMHandler in progress and none handled so far
NoVMRead == [reads |-> 0, id |-> NoVMID, row |-> [Status |-> "absent", IsWarm |-> FALSE]]

\* no createVM call in progress
NoCreate == [pc |-> "idle", id |-> NoVMID, isWarm |-> FALSE, failedAt |-> "none", err |-> FALSE]

----------------------------------------------------------------------------
(* State *)

VARIABLES
    now,               \* wall clock read by time.Now()
    executions,        \* state manager: table of Execution rows
    vmRows,            \* state manager: table of VM rows
    vms,               \* VMManager.vms: ids of the VMInstances
    warmPool,          \* VMManager.warmPool channel (FIFO of VMs)
    nextVM,            \* number of VMs created so far
    refill,            \* position of manageWarmPool: "wait" or "create"
    nextExec,          \* number of request ids handed out so far
    asyncQueue,        \* Scheduler.asyncQueue channel
    activeExecutions,  \* Scheduler.activeExecutions (keys)
    activeExecs,       \* StateManager.activeExecs: execution id -> VM id
    ctx,               \* ExecutionContext / locals of executeFunction per request
    pc,                \* position of each request in ScheduleExecution / executeFunction
    pollI,             \* loop counter i of the polling loop
    result,            \* StatusCode handed to the caller of ScheduleExecution
    reports,           \* number of result reports handled per execution
    lastReport,        \* last result report handled per execution
    monitored,         \* executions the monitor has timed out
    dispatched,        \* executions whose POST /execute reached an agent
    held,              \* PoolSpec: ReturnVM calls the holders of a VM may still make
    functionRow,       \* state manager: the function's row is in the functions table
    functionDir,       \* registry: the function's directory in function-storage exists
    scheduleNotFound,  \* schedule calls answered "function not found"
    reportNotFound,    \* result reports answered "Execution not found"
    functionsTable,    \* state manager: rows (ID, Name) of the functions table
    storage,           \* registry: ids that have a directory in function-storage
    registrations,     \* POST /api/functions requests: position, name, answer
    posts,             \* number of POST /execute requests sent per execution
    vmDirs,            \* vm-storage: ids of the VMs that have a directory
    vmProcs,           \* ids of the VMs whose firecracker process runs
    creating,          \* the createVM call in progress: position, id, failure, error
    agent,             \* in-VM agent per request: position, POSTs of the result, answer
    mu,                \* owner of Scheduler.mu and of VMManager.mu
    threads,           \* goroutines using the mutexes: the lock operations ahead of each
    apiKeys,           \* AuthManager.apiKeys: what became of each key
    served,            \* the last HTTP request served: route, header, answer
    vmRead             \* registerVMHandler: reports handled, and the VM id and row read by the one in progress

vars == <<now, executions, vmRows, vms, warmPool, nextVM, refill, nextExec,
          asyncQueue, activeExecutions, activeExecs, ctx, pc, pollI, result,
          reports, lastReport, monitored, dispatched, held,
          functionRow, functionDir, scheduleNotFound, reportNotFound,
          functionsTable, storage, registrations,
          posts, vmDirs, vmProcs, creating, agent, vmRead, mu, threads,
          apiKeys, served>>

\* what the environment of the scheduler has seen
auxVars == <<posts>>

\* createVM step by step
createVars == <<vmDirs, vmProcs, creating>>

\* the in-VM agents
agentVars == <<agent>>

\* status reports being handled
raceVars == <<vmRead>>

\* the two mutexes and the goroutines that take them
lockVars == <<mu, threads>>

\* API keys and the request being served
authVars == <<apiKeys, served>>

\* state outside the scheduler, the pool and the registry
envVars == <<createVars, agentVars, raceVars, lockVars, authVars>>

\* envVars without the variables of one group
envExceptCreate == <<agentVars, raceVars, lockVars, authVars>>
envExceptAgent == <<createVars, raceVars, lockVars, authVars>>
envExceptRace == <<createVars, agentVars, lockVars, authVars>>
envExceptLock == <<createVars, agentVars, raceVars, authVars>>
envExceptAuth == <<createVars, agentVars, raceVars, lockVars>>

\* registration of functions
registerVars == <<functionsTable, storage, registrations>>

\* the function registry and the error answers counted per endpoint
regVars == <<functionRow, functionDir, scheduleNotFound, reportNotFound>>

vmVars == <<vmRows, vms, warmPool, nextVM>>

schedVars == <<executions, nextExec, asyncQueue, activeExecutions, activeExecs, ctx,
               pc, pollI, result, reports, lastReport, monitored, dispatched>>

\* state.Execution; Status "absent" stands for a row that is not in the table
NoExecution ==
    [Status |-> "absent", VMID |-> NoVMID, StartTime |-> ZeroTime, EndTime |-> ZeroTime,
     Duration |-> 0, Logs |-> "", Error |-> ""]

\* state.VM; Status "absent" stands for a row that is not in the table
NoVMRow == [Status |-> "absent", IsWarm |-> FALSE]

NoContext == [VMID |-> NoVMID, StartTime |-> ZeroTime, Sync |-> FALSE]

TerminalStatuses == {"completed", "failed", "timeout"}

IsTerminal(row) == row.Status \in TerminalStatuses

----------------------------------------------------------------------------
(* State manager *)

\* SaveExecution: gorm Save writes every column of the row (upsert)
SaveExecution(table, id, row) == [table EXCEPT ![id] = row]

\* SaveVM: gorm Save writes every column of the row (upsert)
SaveVM(table, id, row) == [table EXCEPT ![id] = row]

\* DeleteVM
DeleteVM(table, id) == [table EXCEPT ![id] = NoVMRow]

----------------------------------------------------------------------------
(* VM manager.  The operators take and return the manager's state          *)
(* S = [db |-> VM rows, vms |-> VMInstance ids, pool |-> warm pool,        *)
(*      next |-> VMs created].                                             *)

VMState == [db |-> vmRows, vms |-> vms, pool |-> warmPool, next |-> nextVM]

\* terminateVM returns the error "VM not found" when the id is not in m.vms
terminateVM_NotFound(id, S) == id \notin S.vms

\* terminateVM that forgets the VMInstance but leaves the persisted row
terminateVM_KeepRow(id, S) ==
    IF id \notin S.vms
    THEN S
    ELSE [S EXCEPT !.vms = S.vms \ {id}]

\* terminateVM: unknown id is an error; else stop, delete row, delete from map
terminateVM(id, S) ==
    IF id \notin S.vms
    THEN S
    ELSE [S EXCEPT !.db = DeleteVM(S.db, id), !.vms = S.vms \ {id}]

\* ReturnVM with a send into the warm pool that does not look at its capacity
ReturnVM_Unbounded(id, S) ==
    IF S.db[id].Status = "absent"
    THEN S
    ELSE [S EXCEPT !.db = SaveVM(S.db, id, [Status |-> "ready", IsWarm |-> TRUE]),
                   !.pool = Append(S.pool, id)]

\* ReturnVM: read the row (error if gone), mark ready and warm, save, then a
\* non-blocking send into the warm pool; terminate the VM when the pool is full
ReturnVM(id, S) ==
    IF S.db[id].Status = "absent"
    THEN S
    ELSE LET S1 == [S EXCEPT !.db = SaveVM(S.db, id, [Status |-> "ready", IsWarm |-> TRUE])]
         IN  IF Len(S1.pool) < warmPoolSize
             THEN [S1 EXCEPT !.pool = Append(S1.pool, id)]
             ELSE terminateVM(id, S1)

\* createVM succeeding: fresh id, VMInstance stored, row saved ready (warm) or busy
createVM(isWarm, S) ==
    LET id == S.next + 1
    IN  [S EXCEPT !.next = id,
                  !.vms = S.vms \cup {id},
                  !.db = SaveVM(S.db, id, [Status |-> IF isWarm THEN "ready" ELSE "busy",
                                           IsWarm |-> isWarm])]

\* GetVM taking the head of the warm pool: mark busy and save
GetVMWarm(S) ==
    LET id == Head(S.pool)
    IN  [S EXCEPT !.pool = Tail(S.pool),
                  !.db = SaveVM(S.db, id, [S.db[id] EXCEPT !.Status = "busy", !.IsWarm = TRUE])]

SetVMState(S) ==
    /\ vmRows' = S.db
    /\ vms' = S.vms
    /\ warmPool' = S.pool
    /\ nextVM' = S.next

----------------------------------------------------------------------------
Init ==
    /\ now = 0
    /\ executions = [e \in ExecIds |-> NoExecution]
    /\ vmRows = [v \in VMIds |-> NoVMRow]
    /\ vms = {}
    /\ warmPool = <<>>
    /\ nextVM = 0
    /\ refill = "wait"
    /\ nextExec = 0
    /\ asyncQueue = <<>>
    /\ activeExecutions = {}
    /\ activeExecs = [e \in ExecIds |-> NoVMID]
    /\ ctx = [e \in ExecIds |-> NoContext]
    /\ pc = [e \in ExecIds |-> "idle"]
    /\ pollI = [e \in ExecIds |-> 0]
    /\ result = [e \in ExecIds |-> NoResult]
    /\ reports = [e \in ExecIds |-> 0]
    /\ lastReport = [e \in ExecIds |-> NoReport]
    /\ monitored = {}
    /\ dispatched = {}
    /\ held = [left |-> [v \in VMIds |-> 0], doubles |-> 0]
    /\ functionRow = TRUE
    /\ functionDir = TRUE
    /\ scheduleNotFound = 0
    /\ reportNotFound = 0
    /\ functionsTable = {}
    /\ storage = {}
    /\ registrations = [c \in RegistrationIds |-> NoRegistration]
    /\ posts = [e \in DOMAIN pc |-> 0]
    /\ vmDirs = {}
    /\ vmProcs = {}
    /\ creating = NoCreate
    /\ agent = [e \in DOMAIN pc |-> NoAgent]
    /\ vmRead = NoVMRead
    /\ apiKeys = [k \in Keys |-> "never"]
    /\ served = NoRequest
    /\ mu = [l \in Locks |-> NoOwner]
    /\ threads = [t \in Threads |-> NoProgram]

\* more than five minutes pass; goroutines are scheduled with no real-time
\* guarantee, so this can happen between any two steps
Tick ==
    /\ now < MaxClock
    /\ now' = now + 1
    /\ UNCHANGED <<envVars, auxVars, registerVars, regVars, held, executions, vmRows, vms, warmPool, nextVM, refill, nextExec,
                   asyncQueue, activeExecutions, activeExecs, ctx, pc, pollI, result,
                   reports, lastReport, monitored, dispatched>>

----------------------------------------------------------------------------
(* Scheduler *)

\* number of asyncWorker goroutines
NumWorkers == 5

\* the local `execution` struct of executeFunction as it is when saved: the
\* scheduler never re-reads the row, so Logs stays empty and StartTime is the
\* one of record creation
LocalExecution(e, status, vmid, err, endTime, duration) ==
    [Status |-> status, VMID |-> vmid, StartTime |-> executions[e].StartTime,
     EndTime |-> endTime, Duration |-> duration, Logs |-> "", Error |-> err]

\* executeFunction up to the first SaveExecution: the record is created pending
CreateExecutionRecord(e) ==
    SaveExecution(executions, e,
        [NoExecution EXCEPT !.Status = "pending", !.StartTime = now])

\* GetFunction / GetFunctionByName of the registry: the row of the function is
\* read from the functions table
GetFunction == functionRow

\* GetFunctionCode: the row is read again, then handler.py, requirements.txt
\* and skyscale.yaml in the function's directory
GetFunctionCode == functionRow /\ functionDir

\* ScheduleExecution / ScheduleExecutionByName when the lookup of the function
\* fails: (nil, "function not found") before a request id is made
ScheduleExecution_NotFound ==
    /\ scheduleNotFound < MaxNotFound
    /\ scheduleNotFound' = scheduleNotFound + 1
    /\ UNCHANGED <<nextExec, executions, ctx, pc, result, asyncQueue>>

\* ScheduleExecution with sync = true that does not look the function up
ScheduleExecutionSync_Unchecked ==
    /\ nextExec + 1 \in DOMAIN pc
    /\ LET e == nextExec + 1 IN
        /\ nextExec' = e
        /\ executions' = CreateExecutionRecord(e)
        /\ ctx' = [ctx EXCEPT ![e] = [NoContext EXCEPT !.Sync = TRUE]]
        /\ pc' = [pc EXCEPT ![e] = "lease"]
    /\ UNCHANGED <<envVars, auxVars, registerVars, regVars, held, now, vmRows, vms, warmPool, nextVM, refill, asyncQueue,
                   activeExecutions, activeExecs, pollI, result, reports,
                   lastReport, monitored, dispatched>>

\* ScheduleExecution / ScheduleExecutionByName with sync = true: the function
\* is looked up, a fresh request id is made, then executeFunction runs in the
\* caller's goroutine: metadata and code are read (an error returns (nil, err)
\* before any record exists) and the record is created pending
ScheduleExecutionSync ==
    /\ nextExec + 1 \in DOMAIN pc
    /\ IF ~GetFunction
       THEN ScheduleExecution_NotFound
       ELSE LET e == nextExec + 1 IN
            /\ nextExec' = e
            /\ ctx' = [ctx EXCEPT ![e] = [NoContext EXCEPT !.Sync = TRUE]]
            /\ IF GetFunctionCode
               THEN /\ executions' = CreateExecutionRecord(e)
                    /\ pc' = [pc EXCEPT ![e] = "lease"]
                    /\ result' = result
               ELSE /\ executions' = executions
                    /\ pc' = [pc EXCEPT ![e] = "done"]
                    /\ result' = [result EXCEPT ![e] = NilResult]
            /\ UNCHANGED <<scheduleNotFound, asyncQueue>>
    /\ UNCHANGED <<envVars, auxVars, registerVars, functionRow, functionDir, reportNotFound, held, now, vmRows, vms,
                   warmPool, nextVM, refill, activeExecutions, activeExecs, pollI,
                   reports, lastReport, monitored, dispatched>>

\* ScheduleExecution with sync = false that runs executeFunction in the
\* caller's goroutine instead of queueing the request
ScheduleExecutionAsync_Inline ==
    /\ nextExec + 1 \in DOMAIN pc
    /\ LET e == nextExec + 1 IN
        /\ nextExec' = e
        /\ executions' = CreateExecutionRecord(e)
        /\ ctx' = [ctx EXCEPT ![e] = [NoContext EXCEPT !.Sync = FALSE]]
        /\ result' = [result EXCEPT ![e] = 202]
        /\ pc' = [pc EXCEPT ![e] = "lease"]
    /\ UNCHANGED <<envVars, auxVars, registerVars, regVars, held, now, vmRows, vms, warmPool, nextVM, refill, asyncQueue,
                   activeExecutions, activeExecs, pollI, reports,
                   lastReport, monitored, dispatched>>

\* ScheduleExecution with sync = false whose send into asyncQueue does not look
\* at the capacity of the queue
ScheduleExecutionAsync_Unbounded ==
    /\ nextExec + 1 \in DOMAIN pc
    /\ LET e == nextExec + 1 IN
        /\ nextExec' = e
        /\ asyncQueue' = Append(asyncQueue, e)
        /\ result' = [result EXCEPT ![e] = 202]
        /\ pc' = [pc EXCEPT ![e] = "queued"]
    /\ UNCHANGED <<envVars, auxVars, registerVars, regVars, held, now, executions, vmRows, vms, warmPool, nextVM, refill,
                   activeExecutions, activeExecs, ctx, pollI, reports,
                   lastReport, monitored, dispatched>>

\* ScheduleExecution / ScheduleExecutionByName with sync = false: the function
\* is looked up, a fresh request id is made, then a non-blocking send into
\* asyncQueue: 202 on success and (nil, err) when the queue is full
ScheduleExecutionAsync ==
    /\ nextExec + 1 \in DOMAIN pc
    /\ IF ~GetFunction
       THEN ScheduleExecution_NotFound
       ELSE LET e == nextExec + 1 IN
            /\ nextExec' = e
            /\ IF Len(asyncQueue) < asyncQueueSize
               THEN /\ asyncQueue' = Append(asyncQueue, e)
                    /\ result' = [result EXCEPT ![e] = 202]
                    /\ pc' = [pc EXCEPT ![e] = "queued"]
               ELSE /\ asyncQueue' = asyncQueue
                    /\ result' = [result EXCEPT ![e] = NilResult]
                    /\ pc' = [pc EXCEPT ![e] = "done"]
            /\ UNCHANGED <<scheduleNotFound, executions, ctx>>
    /\ UNCHANGED <<envVars, auxVars, registerVars, functionRow, functionDir, reportNotFound, held, now, vmRows, vms,
                   warmPool, nextVM, refill, activeExecutions, activeExecs, pollI,
                   reports, lastReport, monitored, dispatched>>

\* asyncWorker: receive the head of asyncQueue and enter executeFunction, which
\* reads metadata and code (an error is logged by the worker, no record exists)
\* and creates the record pending
asyncWorker ==
    /\ asyncQueue # <<>>
    /\ Cardinality({x \in DOMAIN pc : pc[x] = "lease" /\ ~ctx[x].Sync}) < NumWorkers
    /\ LET e == Head(asyncQueue) IN
        /\ asyncQueue' = Tail(asyncQueue)
        /\ ctx' = [ctx EXCEPT ![e] = [NoContext EXCEPT !.Sync = FALSE]]
        /\ IF GetFunctionCode
           THEN /\ executions' = CreateExecutionRecord(e)
                /\ pc' = [pc EXCEPT ![e] = "lease"]
           ELSE /\ executions' = executions
                /\ pc' = [pc EXCEPT ![e] = "done"]
    /\ UNCHANGED <<envVars, auxVars, registerVars, regVars, held, now, vmRows, vms, warmPool, nextVM, refill, nextExec,
                   activeExecutions, activeExecs, pollI, result, reports,
                   lastReport, monitored, dispatched>>

\* executeFunction after GetVM succeeded with VM v: the context is put into
\* activeExecutions, tracked in the state manager, and the goroutine starts
TrackExecution(e, v) ==
    /\ ctx' = [ctx EXCEPT ![e].VMID = v, ![e].StartTime = now]
    /\ activeExecutions' = activeExecutions \cup {e}
    /\ activeExecs' = [activeExecs EXCEPT ![e] = v]
    /\ pc' = [pc EXCEPT ![e] = "run"]
    /\ UNCHANGED <<envVars, auxVars, registerVars, regVars, held, executions, result>>

\* executeFunction, GetVM: a warm VM from the pool
executeFunction_GetVMWarm(e) ==
    /\ pc[e] = "lease"
    /\ warmPool # <<>>
    /\ SetVMState(GetVMWarm(VMState))
    /\ TrackExecution(e, Head(warmPool))
    /\ UNCHANGED <<envVars, auxVars, registerVars, regVars, held, now, refill, nextExec, asyncQueue, pollI, reports, lastReport,
                   monitored, dispatched>>

\* executeFunction, GetVM: the pool is empty and createVM(false) succeeds
executeFunction_GetVMNew(e) ==
    /\ pc[e] = "lease"
    /\ warmPool = <<>>
    /\ nextVM < MaxVMs
    /\ SetVMState(createVM(FALSE, VMState))
    /\ TrackExecution(e, nextVM + 1)
    /\ UNCHANGED <<envVars, auxVars, registerVars, regVars, held, now, refill, nextExec, asyncQueue, pollI, reports, lastReport,
                   monitored, dispatched>>

\* executeFunction returning the GetVM error without saving the record again
executeFunction_GetVMFail_KeepPending(e) ==
    /\ pc[e] = "lease"
    /\ warmPool = <<>>
    /\ result' = [result EXCEPT ![e] = IF ctx[e].Sync THEN NilResult ELSE result[e]]
    /\ pc' = [pc EXCEPT ![e] = "done"]
    /\ UNCHANGED <<envVars, auxVars, registerVars, regVars, held, now, executions, vmRows, vms, warmPool, nextVM, refill,
                   nextExec, asyncQueue, activeExecutions, activeExecs, ctx, pollI,
                   reports, lastReport, monitored, dispatched>>

\* executeFunction, GetVM: the pool is empty and createVM fails; the record is
\* saved failed and (nil, err) is returned
executeFunction_GetVMFail(e) ==
    /\ pc[e] = "lease"
    /\ warmPool = <<>>
    /\ executions' = SaveExecution(executions, e,
            LocalExecution(e, "failed", NoVMID, "Failed to allocate VM", now, 0))
    /\ result' = [result EXCEPT ![e] = IF ctx[e].Sync THEN NilResult ELSE result[e]]
    /\ pc' = [pc EXCEPT ![e] = "done"]
    /\ UNCHANGED <<envVars, auxVars, registerVars, regVars, held, now, vmRows, vms, warmPool, nextVM, refill, nextExec, asyncQueue,
                   activeExecutions, activeExecs, ctx, pollI, reports, lastReport,
                   monitored, dispatched>>

\* goroutine of executeFunction: the record is saved running with the VM id
executeFunction_Running(e) ==
    /\ pc[e] = "run"
    /\ executions' = SaveExecution(executions, e,
            LocalExecution(e, "running", ctx[e].VMID, "", ZeroTime, 0))
    /\ pc' = [pc EXCEPT ![e] = "post"]
    /\ UNCHANGED <<envVars, auxVars, registerVars, regVars, held, now, vmRows, vms, warmPool, nextVM, refill, nextExec, asyncQueue,
                   activeExecutions, activeExecs, ctx, pollI, result, reports,
                   lastReport, monitored, dispatched>>

\* (json.Marshal of the payload cannot fail: request.Input is a map decoded
\* from the JSON body of the invoke request, so that branch is not a step.)

\* a dispatch failure path that returns without sending on the result channel
executeFunction_PostFail_NoSend(e) ==
    /\ pc[e] = "post"
    /\ executions' = SaveExecution(executions, e,
            LocalExecution(e, "failed", ctx[e].VMID, "Failed to send request to daemon",
                           now, now - ctx[e].StartTime))
    /\ pc' = [pc EXCEPT ![e] = "cleanup"]
    /\ posts' = [posts EXCEPT ![e] = @ + 1]
    /\ UNCHANGED <<envVars, registerVars, regVars, held, now, vmRows, vms, warmPool, nextVM, refill, nextExec, asyncQueue,
                   activeExecutions, activeExecs, ctx, pollI, result, reports, lastReport,
                   monitored, dispatched>>

\* goroutine: client.Post returns an error; failed record, the VM is not
\* returned (the ReturnVM call is commented out), 500
executeFunction_PostFail(e) ==
    /\ pc[e] = "post"
    /\ executions' = SaveExecution(executions, e,
            LocalExecution(e, "failed", ctx[e].VMID, "Failed to send request to daemon",
                           now, now - ctx[e].StartTime))
    /\ result' = [result EXCEPT ![e] = IF ctx[e].Sync THEN 500 ELSE result[e]]
    /\ pc' = [pc EXCEPT ![e] = "cleanup"]
    /\ posts' = [posts EXCEPT ![e] = @ + 1]
    /\ UNCHANGED <<envVars, registerVars, regVars, held, now, vmRows, vms, warmPool, nextVM, refill, nextExec, asyncQueue,
                   activeExecutions, activeExecs, ctx, pollI, reports, lastReport,
                   monitored, dispatched>>

\* goroutine: client.Post succeeds and the agent has accepted the request (202);
\* a sync request goes on to poll, an async one sends the accepted result and
\* returns
executeFunction_PostOk(e) ==
    /\ pc[e] = "post"
    /\ dispatched' = dispatched \cup {e}
    /\ pc' = [pc EXCEPT ![e] = IF ctx[e].Sync THEN "poll" ELSE "cleanup"]
    /\ pollI' = [pollI EXCEPT ![e] = 0]
    /\ posts' = [posts EXCEPT ![e] = @ + 1]
    /\ UNCHANGED <<envVars, registerVars, regVars, held, now, executions, vmRows, vms, warmPool, nextVM, refill, nextExec,
                   asyncQueue, activeExecutions, activeExecs, ctx, result, reports,
                   lastReport, monitored>>

\* goroutine: client.Post returns a response with a status other than 2xx (the
\* agent answers 400 or 405 and starts nothing); err is nil and resp.StatusCode
\* is never read, so the code goes on exactly as after a 202
executeFunction_PostRejected(e) ==
    /\ pc[e] = "post"
    /\ pc' = [pc EXCEPT ![e] = IF ctx[e].Sync THEN "poll" ELSE "cleanup"]
    /\ pollI' = [pollI EXCEPT ![e] = 0]
    /\ posts' = [posts EXCEPT ![e] = @ + 1]
    /\ UNCHANGED <<envVars, registerVars, regVars, held, now, executions, vmRows, vms, warmPool, nextVM, refill, nextExec,
                   asyncQueue, activeExecutions, activeExecs, ctx, result, reports,
                   lastReport, monitored, dispatched>>

\* goroutine, polling loop: one iteration (sleep, GetExecution); on completed or
\* failed the VM is returned and the result is sent
executeFunction_Poll(e) ==
    /\ pc[e] = "poll"
    /\ pollI[e] < maxRetries
    /\ IF executions[e].Status \in {"completed", "failed"}
       THEN /\ result' = [result EXCEPT ![e] =
                            IF executions[e].Status = "failed" THEN 500 ELSE 200]
            /\ SetVMState(ReturnVM(ctx[e].VMID, VMState))
            /\ pc' = [pc EXCEPT ![e] = "cleanup"]
            /\ pollI' = pollI
       ELSE /\ pollI' = [pollI EXCEPT ![e] = pollI[e] + 1]
            /\ UNCHANGED <<result, vmRows, vms, warmPool, nextVM, pc>>
    /\ UNCHANGED <<envVars, auxVars, registerVars, regVars, held, now, executions, refill, nextExec, asyncQueue, activeExecutions,
                   activeExecs, ctx, reports, lastReport, monitored, dispatched>>

\* the exhausted polling loop without the ReturnVM call
executeFunction_PollTimeout_KeepVM(e) ==
    /\ pc[e] = "poll"
    /\ pollI[e] = maxRetries
    /\ executions' = SaveExecution(executions, e,
            LocalExecution(e, "timeout", ctx[e].VMID,
                           "Execution timed out waiting for result",
                           now, now - ctx[e].StartTime))
    /\ result' = [result EXCEPT ![e] = 504]
    /\ pc' = [pc EXCEPT ![e] = "cleanup"]
    /\ UNCHANGED <<envVars, auxVars, registerVars, regVars, held, now, vmRows, vms, warmPool, nextVM, refill, nextExec,
                   asyncQueue, activeExecutions, activeExecs, ctx, pollI, reports,
                   lastReport, monitored, dispatched>>

\* an exhausted polling loop that sends the request to the agent again
executeFunction_PollTimeout_Retry(e) ==
    /\ pc[e] = "poll"
    /\ pollI[e] = maxRetries
    /\ pc' = [pc EXCEPT ![e] = "post"]
    /\ UNCHANGED <<envVars, auxVars, registerVars, regVars, held, now, executions, vmRows, vms, warmPool, nextVM,
                   refill, nextExec, asyncQueue, activeExecutions, activeExecs, ctx,
                   pollI, result, reports, lastReport, monitored, dispatched>>

\* goroutine, polling loop exhausted: timeout record, ReturnVM, 504
executeFunction_PollTimeout(e) ==
    /\ pc[e] = "poll"
    /\ pollI[e] = maxRetries
    /\ executions' = SaveExecution(executions, e,
            LocalExecution(e, "timeout", ctx[e].VMID,
                           "Execution timed out waiting for result",
                           now, now - ctx[e].StartTime))
    /\ SetVMState(ReturnVM(ctx[e].VMID, VMState))
    /\ result' = [result EXCEPT ![e] = 504]
    /\ pc' = [pc EXCEPT ![e] = "cleanup"]
    /\ UNCHANGED <<envVars, auxVars, registerVars, regVars, held, now, refill, nextExec, asyncQueue, activeExecutions, activeExecs,
                   ctx, pollI, reports, lastReport, monitored, dispatched>>

\* goroutine, deferred cleanup: delete from activeExecutions, untrack
executeFunction_Cleanup(e) ==
    /\ pc[e] = "cleanup"
    /\ activeExecutions' = activeExecutions \ {e}
    /\ activeExecs' = [activeExecs EXCEPT ![e] = NoVMID]
    /\ pc' = [pc EXCEPT ![e] = "done"]
    /\ UNCHANGED <<envVars, auxVars, registerVars, regVars, held, now, executions, vmRows, vms, warmPool, nextVM, refill, nextExec,
                   asyncQueue, ctx, pollI, result, reports, lastReport, monitored,
                   dispatched>>

\* monitorExecutions, one entry of activeExecutions older than five minutes:
\* the row is read, saved as timeout, the VM returned, the entry removed
monitorExecutions(e) ==
    /\ e \in activeExecutions
    /\ now - ctx[e].StartTime > FiveMinutes
    /\ executions[e].Status # "absent"
    /\ executions' = SaveExecution(executions, e,
            [executions[e] EXCEPT !.Status = "timeout", !.Error = "Execution timed out",
                                  !.EndTime = now, !.Duration = now - ctx[e].StartTime])
    /\ SetVMState(ReturnVM(ctx[e].VMID, VMState))
    /\ activeExecutions' = activeExecutions \ {e}
    /\ activeExecs' = [activeExecs EXCEPT ![e] = NoVMID]
    /\ monitored' = monitored \cup {e}
    /\ UNCHANGED <<envVars, auxVars, registerVars, regVars, held, now, refill, nextExec, asyncQueue, ctx, pc, pollI, result, reports,
                   lastReport, dispatched>>

----------------------------------------------------------------------------
(* Result reconciler *)

RECURSIVE SumUpTo(_, _)
SumUpTo(f, n) == IF n = 0 THEN 0 ELSE f[n] + SumUpTo(f, n - 1)

\* result reports handled so far
ReportsHandled == SumUpTo(reports, MaxExec)

\* the row handleResultHandler saves for report r when it read row
ResultRow(row, r) ==
    IF r.StatusCode = 200
    THEN [row EXCEPT !.Status = "completed", !.EndTime = now, !.Duration = r.Duration,
                     !.Logs = r.Output]
    ELSE [row EXCEPT !.Status = "error", !.EndTime = now, !.Duration = r.Duration,
                     !.Error = r.ErrorMessage]

\* handleResultHandler for a report of the agent that was sent request e
handleResultHandler(e, r) ==
    /\ e \in dispatched
    /\ ReportsHandled < MaxReports
    /\ executions[e].Status # "absent"
    /\ executions' = SaveExecution(executions, e, ResultRow(executions[e], r))
    /\ reports' = [reports EXCEPT ![e] = reports[e] + 1]
    /\ lastReport' = [lastReport EXCEPT ![e] = r]
    /\ UNCHANGED <<envVars, auxVars, registerVars, regVars, held, now, vmRows, vms, warmPool, nextVM, refill, nextExec, asyncQueue,
                   activeExecutions, activeExecs, ctx, pc, pollI, result, monitored,
                   dispatched>>

\* handleResultHandler that saves the reported row without having found one
handleResultHandler_Recreate(e, r) ==
    /\ executions[e].Status = "absent"
    /\ reportNotFound < MaxNotFound
    /\ reportNotFound' = reportNotFound + 1
    /\ executions' = SaveExecution(executions, e, ResultRow(executions[e], r))
    /\ UNCHANGED <<envVars, auxVars, registerVars, functionRow, functionDir, scheduleNotFound, held, now, vmRows, vms,
                   warmPool, nextVM, refill, nextExec, asyncQueue, activeExecutions,
                   activeExecs, ctx, pc, pollI, result, reports, lastReport, monitored,
                   dispatched>>

\* handleResultHandler for a report whose request_id has no row: GetExecution
\* fails, the answer is 404 "Execution not found" and nothing is written
handleResultHandler_NotFound(e, r) ==
    /\ executions[e].Status = "absent"
    /\ reportNotFound < MaxNotFound
    /\ reportNotFound' = reportNotFound + 1
    /\ UNCHANGED <<envVars, auxVars, registerVars, functionRow, functionDir, scheduleNotFound, held, now, executions,
                   vmRows, vms, warmPool, nextVM, refill, nextExec, asyncQueue,
                   activeExecutions, activeExecs, ctx, pc, pollI, result, reports,
                   lastReport, monitored, dispatched>>

----------------------------------------------------------------------------
(* VM status reports *)

\* registerVMHandler for the status report the agent on VM v posts after it
\* ran a function (the daemon reports "ready"): the row is read with GetVMByID
\* (404 and nothing written when there is none), its status is set to the
\* reported one and the row is saved
registerVMHandler(v) ==
    /\ \E e \in ExecIds : e \in dispatched /\ ctx[e].VMID = v
    /\ vmRows[v].Status # "absent"
    /\ vmRows' = SaveVM(vmRows, v, [vmRows[v] EXCEPT !.Status = "ready"])
    /\ UNCHANGED <<envVars, auxVars, registerVars, regVars, held, now, executions, vms, warmPool, nextVM, refill, nextExec,
                   asyncQueue, activeExecutions, activeExecs, ctx, pc, pollI, result,
                   reports, lastReport, monitored, dispatched>>

----------------------------------------------------------------------------
(* Function registry *)

\* DeleteFunction, first half: the row was found, the function's directory is
\* removed
DeleteFunction_RemoveDir ==
    /\ functionRow
    /\ functionDir
    /\ functionDir' = FALSE
    /\ UNCHANGED <<envVars, auxVars, registerVars, functionRow, scheduleNotFound, reportNotFound, held, now, executions,
                   vmRows, vms, warmPool, nextVM, refill, nextExec, asyncQueue,
                   activeExecutions, activeExecs, ctx, pc, pollI, result, reports,
                   lastReport, monitored, dispatched>>

\* DeleteFunction, second half: the row is deleted from the functions table
DeleteFunction_DeleteRow ==
    /\ functionRow
    /\ ~functionDir
    /\ functionRow' = FALSE
    /\ UNCHANGED <<envVars, auxVars, registerVars, functionDir, scheduleNotFound, reportNotFound, held, now, executions,
                   vmRows, vms, warmPool, nextVM, refill, nextExec, asyncQueue,
                   activeExecutions, activeExecs, ctx, pc, pollI, result, reports,
                   lastReport, monitored, dispatched>>

----------------------------------------------------------------------------
(* Registration of functions.  Requests are served concurrently and        *)
(* RegisterFunction takes no lock, so its lookup, its writes into the       *)
(* storage directory and its insert are separate steps.                     *)

\* StateManager.GetFunctionByName finds a row
GetFunctionByName(table, name) == \E f \in table : f.Name = name

\* a functions table without the unique index on Name
SaveFunctionFails_NoIndex(table, row) == FALSE

\* StateManager.SaveFunction fails: Name has a unique index and another row
\* holds the name
SaveFunctionFails(table, row) == \E f \in table : f.Name = row.Name /\ f.ID # row.ID

\* StateManager.SaveFunction succeeding (upsert by ID)
SaveFunction(table, row) == {f \in table : f.ID # row.ID} \cup {row}

\* registerFunctionHandler: the body is decoded; 400 "Invalid request body" if
\* that fails, else RegisterFunction is called with the decoded fields
registerFunctionHandler(c, body) ==
    /\ registrations[c].pc = "idle"
    /\ registrations' = [registrations EXCEPT ![c] =
            IF body.Decodes
            THEN [pc |-> "lookup", Name |-> body.Name, Status |-> 0, Error |-> ""]
            ELSE [pc |-> "done", Name |-> "", Status |-> 400,
                  Error |-> "Invalid request body"]]
    /\ UNCHANGED <<functionsTable, storage>>
    /\ UNCHANGED <<envVars, auxVars, regVars, held, now, refill>>
    /\ UNCHANGED vmVars
    /\ UNCHANGED schedVars

\* RegisterFunction: a row with the name exists already
RegisterFunction_Lookup(c) ==
    /\ registrations[c].pc = "lookup"
    /\ registrations' = [registrations EXCEPT ![c] =
            IF GetFunctionByName(functionsTable, registrations[c].Name)
            THEN [@ EXCEPT !.pc = "done", !.Status = 500,
                           !.Error = "function with this name already exists"]
            ELSE [@ EXCEPT !.pc = "write"]]
    /\ UNCHANGED <<functionsTable, storage>>
    /\ UNCHANGED <<envVars, auxVars, regVars, held, now, refill>>
    /\ UNCHANGED vmVars
    /\ UNCHANGED schedVars

\* RegisterFunction: fresh id, the directory with handler.py, requirements.txt
\* and skyscale.yaml is written
RegisterFunction_Write(c) ==
    /\ registrations[c].pc = "write"
    /\ storage' = storage \cup {c}
    /\ registrations' = [registrations EXCEPT ![c].pc = "save"]
    /\ UNCHANGED functionsTable
    /\ UNCHANGED <<envVars, auxVars, regVars, held, now, refill>>
    /\ UNCHANGED vmVars
    /\ UNCHANGED schedVars

\* RegisterFunction: SaveFunction; on failure the directory is removed again
\* and the error returned, else the metadata is returned
RegisterFunction_Save(c) ==
    /\ registrations[c].pc = "save"
    /\ LET row == [ID |-> c, Name |-> registrations[c].Name] IN
        IF SaveFunctionFails(functionsTable, row)
        THEN /\ storage' = storage \ {c}
             /\ functionsTable' = functionsTable
             /\ registrations' = [registrations EXCEPT ![c] =
                    [@ EXCEPT !.pc = "done", !.Status = 500,
                              !.Error = "UNIQUE constraint failed"]]
        ELSE /\ storage' = storage
             /\ functionsTable' = SaveFunction(functionsTable, row)
             /\ registrations' = [registrations EXCEPT ![c] =
                    [@ EXCEPT !.pc = "done", !.Status = 200]]
    /\ UNCHANGED <<envVars, auxVars, regVars, held, now, refill>>
    /\ UNCHANGED vmVars
    /\ UNCHANGED schedVars

RegisterNext ==
    \/ \E c \in RegistrationIds, body \in RequestBodies : registerFunctionHandler(c, body)
    \/ \E c \in RegistrationIds : RegisterFunction_Lookup(c)
    \/ \E c \in RegistrationIds : RegisterFunction_Write(c)
    \/ \E c \in RegistrationIds : RegisterFunction_Save(c)

RegisterSpec == Init /\ [][RegisterNext]_vars

----------------------------------------------------------------------------
(* Polling for a result *)

\* GetExecutionResult(requestID): 102 while the id is in activeExecutions, else
\* the row is read: (nil, err) when there is none, otherwise StatusCode 200
\* with the row's output, error and duration
GetExecutionResult(e) ==
    IF e \in activeExecutions
    THEN [StatusCode |-> 102, Output |-> "", ErrorMessage |-> "", Duration |-> 0]
    ELSE IF executions[e].Status = "absent"
         THEN [StatusCode |-> NilResult, Output |-> "", ErrorMessage |-> "", Duration |-> 0]
         ELSE [StatusCode |-> 200, Output |-> executions[e].Logs,
               ErrorMessage |-> executions[e].Error, Duration |-> executions[e].Duration]

----------------------------------------------------------------------------
(* Warm pool refill *)

\* a refill task that stops one VM short of warmPoolSize
manageWarmPool_Tick_Short ==
    /\ refill = "wait"
    /\ Len(warmPool) < warmPoolSize - 1
    /\ refill' = "create"
    /\ UNCHANGED <<envVars, auxVars, registerVars, regVars, held, now, executions, vmRows, vms, warmPool, nextVM, nextExec,
                   asyncQueue, activeExecutions, activeExecs, ctx, pc, pollI, result,
                   reports, lastReport, monitored, dispatched>>

\* manageWarmPool, ticker fired: the pool is below warmPoolSize
manageWarmPool_Tick ==
    /\ refill = "wait"
    /\ Len(warmPool) < warmPoolSize
    /\ refill' = "create"
    /\ UNCHANGED <<envVars, auxVars, registerVars, regVars, held, now, executions, vmRows, vms, warmPool, nextVM, nextExec,
                   asyncQueue, activeExecutions, activeExecs, ctx, pc, pollI, result,
                   reports, lastReport, monitored, dispatched>>

\* the VM manager's state after manageWarmPool offered a new warm VM to the pool
OfferWarmVM(S) ==
    LET S1 == createVM(TRUE, S)
    IN  IF Len(S1.pool) < warmPoolSize
        THEN [S1 EXCEPT !.pool = Append(S1.pool, S1.next)]
        ELSE terminateVM(S1.next, S1)

\* manageWarmPool after the size check: createVM(true) fails (continue with
\* the next tick) or succeeds, followed by a non-blocking send into the pool
\* that terminates the new VM when the pool is full
manageWarmPool_Create(limit) ==
    /\ refill = "create"
    /\ \/ UNCHANGED vmVars
       \/ /\ nextVM < limit
          /\ SetVMState(OfferWarmVM(VMState))
    /\ refill' = "wait"
    /\ UNCHANGED <<envVars, auxVars, registerVars, regVars, held, now, executions, nextExec, asyncQueue, activeExecutions,
                   activeExecs, ctx, pc, pollI, result, reports, lastReport,
                   monitored, dispatched>>

----------------------------------------------------------------------------
Next ==
    \/ Tick
    \/ ScheduleExecutionSync
    \/ ScheduleExecutionAsync
    \/ asyncWorker
    \/ \E e \in ExecIds : executeFunction_GetVMWarm(e)
    \/ \E e \in ExecIds : executeFunction_GetVMNew(e)
    \/ \E e \in ExecIds : executeFunction_GetVMFail(e)
    \/ \E e \in ExecIds : executeFunction_Running(e)
    \/ \E e \in ExecIds : executeFunction_PostFail(e)
    \/ \E e \in ExecIds : executeFunction_PostOk(e)
    \/ \E e \in ExecIds : executeFunction_PostRejected(e)
    \/ \E e \in ExecIds : executeFunction_Poll(e)
    \/ \E e \in ExecIds : executeFunction_PollTimeout(e)
    \/ \E e \in ExecIds : executeFunction_Cleanup(e)
    \/ \E e \in ExecIds : monitorExecutions(e)
    \/ \E e \in ExecIds, r \in Reports : handleResultHandler(e, r)
    \/ manageWarmPool_Tick
    \/ manageWarmPool_Create(MaxVMs)

Spec == Init /\ [][Next]_vars

----------------------------------------------------------------------------
(* ApiSpec: the request paths of the control plane with the registry        *)
(* changing underneath (a function is deleted while invocations are         *)
(* submitted, queued and running) and with clients of the unauthenticated   *)
(* results endpoint that report ids no execution row exists for, and the   *)
(* agents' VM status reports.  The                                          *)
(* clock, the timeout monitor and the warm pool refill are left to Spec.    *)

ApiNext ==
    \/ DeleteFunction_RemoveDir
    \/ DeleteFunction_DeleteRow
    \/ ScheduleExecutionSync
    \/ ScheduleExecutionAsync
    \/ asyncWorker
    \/ \E e \in ExecIds : executeFunction_GetVMWarm(e)
    \/ \E e \in ExecIds : executeFunction_GetVMNew(e)
    \/ \E e \in ExecIds : executeFunction_GetVMFail(e)
    \/ \E e \in ExecIds : executeFunction_Running(e)
    \/ \E e \in ExecIds : executeFunction_PostFail(e)
    \/ \E e \in ExecIds : executeFunction_PostOk(e)
    \/ \E e \in ExecIds : executeFunction_Poll(e)
    \/ \E e \in ExecIds : executeFunction_PollTimeout(e)
    \/ \E e \in ExecIds : executeFunction_Cleanup(e)
    \/ \E e \in ExecIds, r \in Reports : handleResultHandler(e, r)
    \/ \E e \in ExecIds, r \in Reports : handleResultHandler_NotFound(e, r)
    \/ \E v \in VMIds : registerVMHandler(v)

ApiSpec == Init /\ [][ApiNext]_vars

----------------------------------------------------------------------------
(* QueueSpec: asynchronous submissions arriving while every worker is      *)
(* inside executeFunction (booting a VM in GetVM), so that asyncQueue       *)
(* fills up to its capacity.                                                *)

\* submissions in one behaviour of QueueSpec: the workers take NumWorkers of
\* them, asyncQueueSize fill the queue, the next one finds it full
MaxQueued == 106

QueueIds == 1..MaxQueued

QueueInit ==
    /\ now = 0
    /\ executions = [e \in QueueIds |-> NoExecution]
    /\ vmRows = [v \in VMIds |-> NoVMRow]
    /\ vms = {}
    /\ warmPool = <<>>
    /\ nextVM = 0
    /\ refill = "wait"
    /\ nextExec = 0
    /\ asyncQueue = <<>>
    /\ activeExecutions = {}
    /\ activeExecs = [e \in QueueIds |-> NoVMID]
    /\ ctx = [e \in QueueIds |-> NoContext]
    /\ pc = [e \in QueueIds |-> "idle"]
    /\ pollI = [e \in QueueIds |-> 0]
    /\ result = [e \in QueueIds |-> NoResult]
    /\ reports = [e \in QueueIds |-> 0]
    /\ lastReport = [e \in QueueIds |-> NoReport]
    /\ monitored = {}
    /\ dispatched = {}
    /\ held = [left |-> [v \in VMIds |-> 0], doubles |-> 0]
    /\ functionRow = TRUE
    /\ functionDir = TRUE
    /\ scheduleNotFound = 0
    /\ reportNotFound = 0
    /\ functionsTable = {}
    /\ storage = {}
    /\ registrations = [c \in RegistrationIds |-> NoRegistration]
    /\ posts = [e \in DOMAIN pc |-> 0]
    /\ vmDirs = {}
    /\ vmProcs = {}
    /\ creating = NoCreate
    /\ agent = [e \in DOMAIN pc |-> NoAgent]
    /\ vmRead = NoVMRead
    /\ apiKeys = [k \in Keys |-> "never"]
    /\ served = NoRequest
    /\ mu = [l \in Locks |-> NoOwner]
    /\ threads = [t \in Threads |-> NoProgram]

QueueNext ==
    \/ ScheduleExecutionAsync
    \/ asyncWorker

QueueSpec == QueueInit /\ [][QueueNext]_vars

----------------------------------------------------------------------------
(* PoolSpec: the VM manager under arbitrary callers of GetVM and ReturnVM.  *)
(* A caller that was handed a VM calls ReturnVM for it once, or twice (the  *)
(* invocation goroutine and the execution monitor can both release the     *)
(* same lease); the second kind of lease is bounded by MaxDoubleReleases.   *)

\* leases in one behaviour of PoolSpec that are released twice
MaxDoubleReleases == 1

\* the ReturnVM calls the holders of v may still make after a lease of v
Lease(v, n) ==
    [held EXCEPT !.left[v] = n,
                 !.doubles = IF n = 2 THEN held.doubles + 1 ELSE held.doubles]

LeaseKinds == IF held.doubles < MaxDoubleReleases THEN {1, 2} ELSE {1}

\* GetVM called: a warm VM is taken from the pool
GetVM_Warm ==
    /\ warmPool # <<>>
    /\ SetVMState(GetVMWarm(VMState))
    /\ \E n \in LeaseKinds : held' = Lease(Head(warmPool), n)
    /\ UNCHANGED <<envVars, auxVars, registerVars, regVars, now, refill>>
    /\ UNCHANGED schedVars

\* GetVM called: the pool is empty, createVM(false) succeeds
GetVM_New ==
    /\ warmPool = <<>>
    /\ nextVM < PoolVMs
    /\ SetVMState(createVM(FALSE, VMState))
    /\ \E n \in LeaseKinds : held' = Lease(nextVM + 1, n)
    /\ UNCHANGED <<envVars, auxVars, registerVars, regVars, now, refill>>
    /\ UNCHANGED schedVars

\* ReturnVM(v) called by a holder of v
ReturnVM_Call(v) ==
    /\ held.left[v] > 0
    /\ SetVMState(ReturnVM(v, VMState))
    /\ held' = [held EXCEPT !.left[v] = held.left[v] - 1]
    /\ UNCHANGED <<envVars, auxVars, registerVars, regVars, now, refill>>
    /\ UNCHANGED schedVars

PoolNext ==
    \/ manageWarmPool_Tick
    \/ manageWarmPool_Create(PoolVMs)
    \/ GetVM_Warm
    \/ GetVM_New
    \/ \E v \in VMIds : ReturnVM_Call(v)

PoolSpec == Init /\ [][PoolNext]_vars

\* the closed system without failures: every lease is released exactly once
\* (no lease of the behaviour is of the kind that is released twice)
ClosedPoolInit ==
    /\ now = 0
    /\ executions = [e \in ExecIds |-> NoExecution]
    /\ vmRows = [v \in VMIds |-> NoVMRow]
    /\ vms = {}
    /\ warmPool = <<>>
    /\ nextVM = 0
    /\ refill = "wait"
    /\ nextExec = 0
    /\ asyncQueue = <<>>
    /\ activeExecutions = {}
    /\ activeExecs = [e \in ExecIds |-> NoVMID]
    /\ ctx = [e \in ExecIds |-> NoContext]
    /\ pc = [e \in ExecIds |-> "idle"]
    /\ pollI = [e \in ExecIds |-> 0]
    /\ result = [e \in ExecIds |-> NoResult]
    /\ reports = [e \in ExecIds |-> 0]
    /\ lastReport = [e \in ExecIds |-> NoReport]
    /\ monitored = {}
    /\ dispatched = {}
    /\ held = [left |-> [v \in VMIds |-> 0], doubles |-> MaxDoubleReleases]
    /\ functionRow = TRUE
    /\ functionDir = TRUE
    /\ scheduleNotFound = 0
    /\ reportNotFound = 0
    /\ functionsTable = {}
    /\ storage = {}
    /\ registrations = [c \in RegistrationIds |-> NoRegistration]
    /\ posts = [e \in DOMAIN pc |-> 0]
    /\ vmDirs = {}
    /\ vmProcs = {}
    /\ creating = NoCreate
    /\ agent = [e \in DOMAIN pc |-> NoAgent]
    /\ vmRead = NoVMRead
    /\ apiKeys = [k \in Keys |-> "never"]
    /\ served = NoRequest
    /\ mu = [l \in Locks |-> NoOwner]
    /\ threads = [t \in Threads |-> NoProgram]

ClosedPoolSpec == ClosedPoolInit /\ [][PoolNext]_vars

----------------------------------------------------------------------------
(* RefillSpec: the refill task under the scheduling of its goroutine.  The *)
(* ticker fires for ever, so a tick that finds the pool short is taken      *)
(* (weak fairness), and createVM does not fail for ever (strong fairness    *)
(* of the successful creation).                                             *)

\* manageWarmPool: createVM(true) succeeded
manageWarmPool_CreateOk ==
    /\ manageWarmPool_Create(PoolVMs)
    /\ nextVM' = nextVM + 1

\* GetVM taking a warm VM; leases stop while the VMs still to be created for
\* a full pool fit into PoolVMs
RefillLease ==
    /\ nextVM + (warmPoolSize - Len(warmPool)) < PoolVMs
    /\ GetVM_Warm

RefillNext ==
    \/ manageWarmPool_Tick
    \/ manageWarmPool_Create(PoolVMs)
    \/ RefillLease
    \/ \E v \in VMIds : ReturnVM_Call(v)

RefillSpec ==
    /\ Init
    /\ [][RefillNext]_vars
    /\ WF_vars(manageWarmPool_Tick)
    /\ WF_vars(manageWarmPool_Create(PoolVMs))
    /\ SF_vars(manageWarmPool_CreateOk)

----------------------------------------------------------------------------
(* CreateSpec: createVM statement by statement, each fallible call either   *)
(* succeeding or returning an error.  assignIP returns a constant address   *)
(* and a nil error, so it is no step.                                       *)

\* createVM: uuid.New and os.MkdirAll of the VM directory
createVM_MkdirAll(isWarm, ok) ==
    /\ creating.pc = "idle"
    /\ nextVM < MaxCreates
    /\ nextVM' = nextVM + 1
    /\ vmDirs' = IF ok THEN vmDirs \cup {nextVM + 1} ELSE vmDirs
    /\ creating' = IF ok
                   THEN [NoCreate EXCEPT !.pc = "machine", !.id = nextVM + 1, !.isWarm = isWarm]
                   ELSE [NoCreate EXCEPT !.pc = "returned", !.id = nextVM + 1, !.isWarm = isWarm,
                                         !.failedAt = "directory", !.err = TRUE]
    /\ UNCHANGED <<vmProcs, vmRows, vms, warmPool>>
    /\ UNCHANGED <<envExceptCreate, auxVars, registerVars, regVars, held, now, refill>>
    /\ UNCHANGED schedVars

\* createVM: firecracker.NewMachine
createVM_NewMachine(ok) ==
    /\ creating.pc = "machine"
    /\ creating' = IF ok
                   THEN [creating EXCEPT !.pc = "start"]
                   ELSE [creating EXCEPT !.pc = "returned", !.failedAt = "machine", !.err = TRUE]
    /\ UNCHANGED <<vmDirs, vmProcs>>
    /\ UNCHANGED <<envExceptCreate, auxVars, registerVars, regVars, held, now, refill>>
    /\ UNCHANGED vmVars
    /\ UNCHANGED schedVars

\* createVM: machine.Start; when it fails the firecracker process may have
\* been spawned already (running) or not
createVM_Start(ok, running) ==
    /\ creating.pc = "start"
    /\ ok => running
    /\ vmProcs' = IF running THEN vmProcs \cup {creating.id} ELSE vmProcs
    /\ creating' = IF ok
                   THEN [creating EXCEPT !.pc = "store"]
                   ELSE [creating EXCEPT !.pc = "returned", !.failedAt = "start", !.err = TRUE]
    /\ UNCHANGED vmDirs
    /\ UNCHANGED <<envExceptCreate, auxVars, registerVars, regVars, held, now, refill>>
    /\ UNCHANGED vmVars
    /\ UNCHANGED schedVars

\* createVM: the VMInstance is stored in m.vms and the row is saved; a failing
\* SaveVM is logged and the VM returned with a nil error all the same
createVM_Store(ok) ==
    /\ creating.pc = "store"
    /\ vms' = vms \cup {creating.id}
    /\ vmRows' = IF ok
                 THEN SaveVM(vmRows, creating.id,
                             [Status |-> IF creating.isWarm THEN "ready" ELSE "busy",
                              IsWarm |-> creating.isWarm])
                 ELSE vmRows
    /\ creating' = IF ok
                   THEN [creating EXCEPT !.pc = "returned"]
                   ELSE [creating EXCEPT !.pc = "returned", !.failedAt = "persistence"]
    /\ UNCHANGED <<vmDirs, vmProcs, warmPool, nextVM>>
    /\ UNCHANGED <<envExceptCreate, auxVars, registerVars, regVars, held, now, refill>>
    /\ UNCHANGED schedVars

\* createVM has returned to its caller
createVM_Return ==
    /\ creating.pc = "returned"
    /\ creating' = NoCreate
    /\ UNCHANGED <<vmDirs, vmProcs>>
    /\ UNCHANGED <<envExceptCreate, auxVars, registerVars, regVars, held, now, refill>>
    /\ UNCHANGED vmVars
    /\ UNCHANGED schedVars

CreateNext ==
    \/ \E isWarm \in BOOLEAN, ok \in BOOLEAN : createVM_MkdirAll(isWarm, ok)
    \/ \E ok \in BOOLEAN : createVM_NewMachine(ok)
    \/ \E ok \in BOOLEAN, running \in BOOLEAN : createVM_Start(ok, running)
    \/ \E ok \in BOOLEAN : createVM_Store(ok)
    \/ createVM_Return

CreateSpec == Init /\ [][CreateNext]_vars

----------------------------------------------------------------------------
(* AgentSpec: the daemon in the VM.  handleExecuteRequest answers 202 and   *)
(* runs the function in a goroutine, which calls sendResult once and then   *)
(* reportVMStatus; the control plane handles what arrives with              *)
(* handleResultHandler and registerVMHandler.                               *)

\* handleExecuteRequest: the request of e was accepted and the function run
handleExecuteRequest(e) ==
    /\ e \in dispatched
    /\ agent[e].pc = "idle"
    /\ agent' = [agent EXCEPT ![e].pc = "send"]
    /\ UNCHANGED <<envExceptAgent, auxVars, registerVars, regVars, held, now, refill>>
    /\ UNCHANGED vmVars
    /\ UNCHANGED schedVars

\* sendResult: client.Post of the result to /api/results
sendResult_Post(e) ==
    /\ agent[e].pc = "send"
    /\ agent' = [agent EXCEPT ![e].pc = "wait", ![e].attempts = @ + 1]
    /\ UNCHANGED <<envExceptAgent, auxVars, registerVars, regVars, held, now, refill>>
    /\ UNCHANGED vmVars
    /\ UNCHANGED schedVars

\* sendResult: client.Post has returned; an error or a status other than 200
\* is returned to the goroutine, which logs it and goes on
sendResult_Response(e, code) ==
    /\ agent[e].pc = "wait"
    /\ code = 200 => reports[e] > 0
    /\ code = 404 => executions[e].Status = "absent"
    /\ agent' = [agent EXCEPT ![e].pc = "report", ![e].response = code]
    /\ UNCHANGED <<envExceptAgent, auxVars, registerVars, regVars, held, now, refill>>
    /\ UNCHANGED vmVars
    /\ UNCHANGED schedVars

\* the goroutine sets the status ready and calls reportVMStatus
reportVMStatus(e) ==
    /\ agent[e].pc = "report"
    /\ agent' = [agent EXCEPT ![e].pc = "done"]
    /\ UNCHANGED <<envExceptAgent, auxVars, registerVars, regVars, held, now, refill>>
    /\ UNCHANGED vmVars
    /\ UNCHANGED schedVars

AgentNext ==
    \/ ScheduleExecutionSync
    \/ ScheduleExecutionAsync
    \/ asyncWorker
    \/ \E e \in ExecIds : executeFunction_GetVMNew(e)
    \/ \E e \in ExecIds : executeFunction_Running(e)
    \/ \E e \in ExecIds : executeFunction_PostOk(e)
    \/ \E e \in ExecIds : executeFunction_Poll(e)
    \/ \E e \in ExecIds : executeFunction_PollTimeout(e)
    \/ \E e \in ExecIds : executeFunction_Cleanup(e)
    \/ \E e \in ExecIds : handleExecuteRequest(e)
    \/ \E e \in ExecIds : sendResult_Post(e)
    \/ \E e \in ExecIds, r \in Reports :
            agent[e].pc = "wait" /\ handleResultHandler(e, r)
    \/ \E e \in ExecIds, code \in ResultResponses : sendResult_Response(e, code)
    \/ \E e \in ExecIds : reportVMStatus(e)
    \/ \E e \in ExecIds :
            agent[e].pc = "done" /\ registerVMHandler(ctx[e].VMID)

AgentSpec == Init /\ [][AgentNext]_vars

----------------------------------------------------------------------------
(* SyncSpec: synchronous calls under the scheduling of their goroutines.    *)
(* A call that has entered executeFunction keeps taking steps: GetVM and    *)
(* client.Post (which has a timeout) return, time.Sleep ends, and the       *)
(* result channel has a buffer of one, so no send blocks.                   *)

\* one step of executeFunction for request e
executeFunction_Step(e) ==
    \/ executeFunction_GetVMWarm(e)
    \/ executeFunction_GetVMNew(e)
    \/ executeFunction_GetVMFail(e)
    \/ executeFunction_Running(e)
    \/ executeFunction_PostFail(e)
    \/ executeFunction_PostOk(e)
    \/ executeFunction_PostRejected(e)
    \/ executeFunction_Poll(e)
    \/ executeFunction_PollTimeout(e)
    \/ executeFunction_Cleanup(e)

SyncNext ==
    \/ Tick
    \/ ScheduleExecutionSync
    \/ \E e \in ExecIds : executeFunction_Step(e)
    \/ \E e \in ExecIds : monitorExecutions(e)
    \/ \E e \in ExecIds, r \in Reports : handleResultHandler(e, r)

SyncSpec ==
    /\ Init
    /\ [][SyncNext]_vars
    /\ \A e \in ExecIds : WF_vars(executeFunction_Step(e))

----------------------------------------------------------------------------
(* RaceSpec: registerVMHandler as the two calls it makes, GetVMByID and     *)
(* SaveVM, running beside GetVM, ReturnVM and the refill task.  Every lease *)
(* is released once, so that no row is written by a second release.         *)

\* registerVMHandler for the report the agent on VM v posts after it ran a
\* function, while v is still on lease: GetVMByID found the row of v (404 and
\* the end of the handler when there is none)
registerVMHandler_Read(v) ==
    /\ held.left[v] > 0
    /\ vmRead.id = NoVMID
    /\ vmRead.reads < MaxStatusReports
    /\ vmRows[v].Status # "absent"
    /\ vmRead' = [reads |-> vmRead.reads + 1, id |-> v, row |-> vmRows[v]]
    /\ UNCHANGED <<envExceptRace, auxVars, registerVars, regVars, held, now, refill>>
    /\ UNCHANGED vmVars
    /\ UNCHANGED schedVars

\* registerVMHandler: the status of the row it read is set to the reported
\* one (the daemon reports ready) and SaveVM writes the whole row
registerVMHandler_Save ==
    /\ vmRead.id # NoVMID
    /\ vmRows' = SaveVM(vmRows, vmRead.id, [vmRead.row EXCEPT !.Status = "ready"])
    /\ vmRead' = [vmRead EXCEPT !.id = NoVMID, !.row = NoVMRead.row]
    /\ UNCHANGED <<vms, warmPool, nextVM>>
    /\ UNCHANGED <<envExceptRace, auxVars, registerVars, regVars, held, now, refill>>
    /\ UNCHANGED schedVars

RaceNext ==
    \/ manageWarmPool_Tick
    \/ manageWarmPool_Create(PoolVMs)
    \/ GetVM_Warm
    \/ GetVM_New
    \/ \E v \in VMIds : ReturnVM_Call(v)
    \/ \E v \in VMIds : registerVMHandler_Read(v)
    \/ registerVMHandler_Save

RaceSpec == ClosedPoolInit /\ [][RaceNext]_vars

----------------------------------------------------------------------------
(* LockSpec: the Lock and Unlock calls of each goroutine in the order the   *)
(* code makes them on each of its paths.  sync.Mutex is not reentrant.  A   *)
(* goroutine that can take a step infinitely often takes one (the runtime   *)
(* schedules every goroutine, and a sync.Mutex hands the lock to a waiter   *)
(* that has waited long), hence strong fairness per goroutine.              *)

Lock(l) == <<"Lock", l>>
Unlock(l) == <<"Unlock", l>>

\* terminateVM: m.mu around the lookup in m.vms (and the return when the id is
\* not there), and again around the delete
terminateVM_Locks ==
    { <<Lock("vm"), Unlock("vm")>>,
      <<Lock("vm"), Unlock("vm"), Lock("vm"), Unlock("vm")>> }

\* ReturnVM: no mutex itself; terminateVM when the pool is full
ReturnVM_Locks == {<<>>} \cup terminateVM_Locks

\* createVM: m.mu around the store into m.vms; nothing on a failing path
createVM_Locks == { <<>>, <<Lock("vm"), Unlock("vm")>> }

\* GetVM: a warm VM from the channel, or createVM
GetVM_Locks == {<<>>} \cup createVM_Locks

\* monitorExecutions, one pass: s.mu held over the whole loop, inside it
\* ReturnVM for an execution that is too old
monitorExecutions_Locks ==
    { <<Lock("scheduler")>> \o r \o <<Unlock("scheduler")>> : r \in ReturnVM_Locks }

\* executeFunction: GetVM, s.mu around the insert into activeExecutions, the
\* goroutine's ReturnVM, s.mu around the delete in the deferred cleanup
executeFunction_Locks ==
    { g \o <<Lock("scheduler"), Unlock("scheduler")>> \o r
        \o <<Lock("scheduler"), Unlock("scheduler")>> :
        g \in GetVM_Locks, r \in ReturnVM_Locks }

\* GetExecutionResult: s.mu around the lookup in activeExecutions
GetExecutionResult_Locks == { <<Lock("scheduler"), Unlock("scheduler")>> }

\* a refill pass that asks for the scheduler mutex while it holds m.mu
manageWarmPool_Locks_Nested ==
    { <<Lock("vm"), Lock("scheduler"), Unlock("scheduler"), Unlock("vm")>> }

\* manageWarmPool, one tick: m.mu around len(m.warmPool), then createVM and,
\* when the pool is full, terminateVM
manageWarmPool_Locks ==
    { <<Lock("vm"), Unlock("vm")>> \o c \o t :
        c \in createVM_Locks, t \in {<<>>} \cup terminateVM_Locks }

\* the lock operations of one pass of goroutine t
Programs(t) ==
    CASE t = "monitor" -> monitorExecutions_Locks
      [] t \in {"invoke1", "invoke2"} -> executeFunction_Locks
      [] t = "getResult" -> GetExecutionResult_Locks
      [] t = "refill" -> manageWarmPool_Locks

\* goroutine t has lock operations ahead
Running(t) == threads[t] # <<>>

\* goroutine t is at a Lock call on l
Requests(t, l) == Running(t) /\ Head(threads[t]) = Lock(l)

\* goroutine t starts a pass (a tick, an invocation, a request)
StartPass(t) ==
    /\ ~Running(t)
    /\ \E ops \in Programs(t) : threads' = [threads EXCEPT ![t] = ops]
    /\ UNCHANGED mu
    /\ UNCHANGED <<envExceptLock, auxVars, registerVars, regVars, held, now, refill>>
    /\ UNCHANGED vmVars
    /\ UNCHANGED schedVars

\* Lock returns in goroutine t: the mutex was free
LockStep(t) ==
    /\ \E l \in Locks :
        /\ Requests(t, l)
        /\ mu[l] = NoOwner
        /\ mu' = [mu EXCEPT ![l] = t]
    /\ threads' = [threads EXCEPT ![t] = Tail(@)]
    /\ UNCHANGED <<envExceptLock, auxVars, registerVars, regVars, held, now, refill>>
    /\ UNCHANGED vmVars
    /\ UNCHANGED schedVars

\* Unlock in goroutine t
UnlockStep(t) ==
    /\ \E l \in Locks :
        /\ Running(t)
        /\ Head(threads[t]) = Unlock(l)
        /\ mu' = [mu EXCEPT ![l] = NoOwner]
    /\ threads' = [threads EXCEPT ![t] = Tail(@)]
    /\ UNCHANGED <<envExceptLock, auxVars, registerVars, regVars, held, now, refill>>
    /\ UNCHANGED vmVars
    /\ UNCHANGED schedVars

ThreadStep(t) == StartPass(t) \/ LockStep(t) \/ UnlockStep(t)

LockNext ==
    \/ \E t \in Threads : StartPass(t)
    \/ \E t \in Threads : LockStep(t)
    \/ \E t \in Threads : UnlockStep(t)

LockSpec ==
    /\ Init
    /\ [][LockNext]_vars
    /\ \A t \in Threads : SF_vars(ThreadStep(t))

----------------------------------------------------------------------------
(* AuthSpec: API keys and the routing of a request through the routers of   *)
(* RegisterRoutes (the one of the APIHandler that main constructs, with the *)
(* state manager).                                                          *)

\* the router each route is registered on: api, or the subrouter protected,
\* the only one that uses the authentication middleware
RouteParent(route) ==
    CASE route = "health" -> "api"
      [] route = "auth/api-key" -> "api"
      [] route = "functions" -> "api"
      [] route = "executions" -> "api"
      [] route = "vms" -> "api"
      [] route = "vms/register" -> "api"
      [] route = "results" -> "api"

\* ValidateAPIKey: the key is in the map and has not expired
ValidateAPIKey(key) == apiKeys[key] = "valid"

\* Middleware lets the request through: header present, two parts, the first
\* one Bearer, and the key valid
Middleware(header) ==
    /\ header # <<>>
    /\ Len(header) = 2
    /\ header[1] = "Bearer"
    /\ header[2] \in Keys
    /\ ValidateAPIKey(header[2])

\* what became of the key a header carries ("never" when it carries none)
KeyOf(header) ==
    IF Len(header) = 2 /\ header[1] = "Bearer" /\ header[2] \in Keys
    THEN apiKeys[header[2]]
    ELSE "never"

\* GenerateAPIKey: a fresh random key is stored
GenerateAPIKey(k) ==
    /\ apiKeys[k] = "never"
    /\ apiKeys' = [apiKeys EXCEPT ![k] = "valid"]
    /\ UNCHANGED served
    /\ UNCHANGED <<envExceptAuth, auxVars, registerVars, regVars, held, now, refill>>
    /\ UNCHANGED vmVars
    /\ UNCHANGED schedVars

\* time passes ExpiresAt of key k
ExpireAPIKey(k) ==
    /\ apiKeys[k] = "valid"
    /\ apiKeys' = [apiKeys EXCEPT ![k] = "expired"]
    /\ UNCHANGED served
    /\ UNCHANGED <<envExceptAuth, auxVars, registerVars, regVars, held, now, refill>>
    /\ UNCHANGED vmVars
    /\ UNCHANGED schedVars

\* RevokeAPIKey: the key is deleted from the map
RevokeAPIKey(k) ==
    /\ apiKeys[k] \in {"valid", "expired"}
    /\ apiKeys' = [apiKeys EXCEPT ![k] = "revoked"]
    /\ UNCHANGED served
    /\ UNCHANGED <<envExceptAuth, auxVars, registerVars, regVars, held, now, refill>>
    /\ UNCHANGED vmVars
    /\ UNCHANGED schedVars

\* a request to route with the given Authorization header is served: through
\* the middleware when the route's router uses it (401 when it refuses), then
\* the handler
ServeHTTP(route, header) ==
    /\ LET pass == RouteParent(route) = "protected" => Middleware(header) IN
        served' = [route |-> route, header |-> header, key |-> KeyOf(header),
                   status |-> IF pass THEN 200 ELSE 401, handler |-> pass]
    /\ UNCHANGED apiKeys
    /\ UNCHANGED <<envExceptAuth, auxVars, registerVars, regVars, held, now, refill>>
    /\ UNCHANGED vmVars
    /\ UNCHANGED schedVars

AuthNext ==
    \/ \E k \in Keys : GenerateAPIKey(k)
    \/ \E k \in Keys : ExpireAPIKey(k)
    \/ \E k \in Keys : RevokeAPIKey(k)
    \/ \E route \in Routes, header \in Headers : ServeHTTP(route, header)

AuthSpec == Init /\ [][AuthNext]_vars

----------------------------------------------------------------------------
(* Properties *)

\* the status a result report is meant to leave in the row
ReportStatus(r) == IF r.StatusCode = 200 THEN "completed" ELSE "error"

\* the terminal state an ExecutionResult tells the caller of a sync invocation
Outcome(code) ==
    CASE code = 200 -> "completed"
      [] code = 504 -> "timeout"
      [] OTHER      -> "failed"

\* C1: once an execution row is completed, failed or timeout, no later write
\* leaves it with a status outside these three.
C1_TerminalNeverReverted ==
    [][\A e \in ExecIds :
         IsTerminal(executions[e]) => IsTerminal(executions'[e])]_vars

\* C2: once an execution row is terminal, its status, output, error, end time
\* and duration never change again.
C2_TerminalImmutable ==
    [][\A e \in ExecIds :
         IsTerminal(executions[e]) =>
            /\ executions'[e].Status = executions[e].Status
            /\ executions'[e].Logs = executions[e].Logs
            /\ executions'[e].Error = executions[e].Error
            /\ executions'[e].EndTime = executions[e].EndTime
            /\ executions'[e].Duration = executions[e].Duration]_vars

\* C3: a result report that repeats the report the row was last written from
\* is handled without changing the row.
C3_DuplicateReportNoOp ==
    [][\A e \in ExecIds :
         ( /\ reports'[e] = reports[e] + 1
           /\ reports[e] > 0
           /\ lastReport'[e] = lastReport[e]
           /\ executions[e].Status = ReportStatus(lastReport[e]) )
         => executions'[e] = executions[e]]_vars

\* C4: of the timeout monitor and the result reconciler, the one that writes
\* an execution row second leaves the row as the first one wrote it.
C4_FirstTerminalWriterWins ==
    [][\A e \in ExecIds :
         ( \/ e \in monitored /\ reports'[e] = reports[e] + 1
           \/ reports[e] > 0 /\ e \notin monitored /\ e \in monitored' )
         => executions'[e] = executions[e]]_vars

\* C5: no two executions in running state reference the same VM.
C5_OneRunningExecutionPerVM ==
    \A e1, e2 \in ExecIds :
        ( /\ e1 # e2
          /\ executions[e1].Status = "running"
          /\ executions[e2].Status = "running"
          /\ executions[e1].VMID # NoVMID )
        => executions[e1].VMID # executions[e2].VMID

\* C6: every VM in the warm pool has a persisted status of ready and is
\* referenced by no running execution.
C6_PoolVMsReadyAndUnassigned ==
    \A i \in 1..Len(warmPool) :
        /\ vmRows[warmPool[i]].Status = "ready"
        /\ \A e \in ExecIds :
              ~(executions[e].Status = "running" /\ executions[e].VMID = warmPool[i])

\* C7: the warm pool never holds more than warmPoolSize VMs.
C7_WarmPoolBounded == Len(warmPool) <= warmPoolSize

\* C7 witness: the pool is full and a VM offered to the full pool was
\* terminated instead of being queued.
C7_Witness ==
    /\ Len(warmPool) = warmPoolSize
    /\ \E v \in 1..nextVM : v \notin vms /\ vmRows[v].Status = "absent"

\* C8: when an invocation that leased a VM has ended (terminal row, goroutine
\* gone, no entry in the active index), its VM is no longer busy on its behalf.
C8_LeasedVMReleased ==
    \A e \in ExecIds :
        ( /\ pc[e] = "done"
          /\ e \notin activeExecutions
          /\ IsTerminal(executions[e])
          /\ ctx[e].VMID # NoVMID
          /\ \A e2 \in ExecIds \ {e} : ctx[e2].VMID # ctx[e].VMID )
        => vmRows[ctx[e].VMID].Status # "busy"

\* C9: a dispatched execution that nothing in the control plane tracks any
\* more (goroutine gone, no entry in the active index for the monitor to time
\* out) has reached a terminal state.
C9_DispatchedReachesTerminal ==
    \A e \in ExecIds :
        (e \in dispatched /\ pc[e] = "done" /\ e \notin activeExecutions)
        => IsTerminal(executions[e])

\* C10: the outcome returned to the caller of a synchronous invocation is the
\* status of the persisted execution row, at return and ever after.
C10_SyncOutcomeMatchesRow ==
    \A e \in ExecIds :
        (ctx[e].Sync /\ result[e] # NoResult)
        => executions[e].Status = Outcome(result[e])

\* C11: a result report handled for a row that is not terminal leaves the row
\* completed with the reported output when status_code is 200 and failed with
\* the reported error message for every other status code.
C11_ReportMakesRowTerminal ==
    [][\A e \in ExecIds :
         (reports'[e] = reports[e] + 1 /\ ~IsTerminal(executions[e])) =>
            IF lastReport'[e].StatusCode = 200
            THEN /\ executions'[e].Status = "completed"
                 /\ executions'[e].Logs = lastReport'[e].Output
            ELSE /\ executions'[e].Status = "failed"
                 /\ executions'[e].Error = lastReport'[e].ErrorMessage]_vars

\* C12: a result report for an id that has no execution row is answered
\* "Execution not found" and changes no execution row, VM or index entry; no
\* handled report ever creates a row.
C12_UnknownReportChangesNothing ==
    [][ /\ reportNotFound' # reportNotFound =>
              /\ reportNotFound' = reportNotFound + 1
              /\ UNCHANGED <<executions, vmRows, vms, warmPool, nextVM, activeExecutions,
                             activeExecs, asyncQueue, nextExec, reports, lastReport>>
        /\ \A e \in ExecIds :
              (executions[e].Status = "absent" /\ executions'[e].Status # "absent")
              => (reports' = reports /\ reportNotFound' = reportNotFound) ]_vars

\* C12 witness: a report for an id without a row was answered not found, and
\* that id still has no row.
C12_Witness ==
    /\ reportNotFound > 0
    /\ \E e \in ExecIds : executions[e].Status = "absent"

\* C13: every schedule call that made a request id returns a result carrying
\* that id, never (nil, err).
C13_ResultCarriesExecutionId ==
    \A e \in ExecIds : result[e] # NilResult

\* C14: an asynchronous submission that is accepted gets a fresh id and the
\* result 202 in the step that queues it, with no execution row, VM or index
\* entry touched; the row of an accepted request is created only by a worker
\* that takes the request from the head of the queue.
C14_AsyncAcceptedWithoutWaiting ==
    [][\A e \in ExecIds :
         /\ (result[e] = NoResult /\ result'[e] = 202) =>
               /\ pc[e] = "idle"
               /\ e = nextExec + 1
               /\ executions[e].Status = "absent"
               /\ pc'[e] = "queued"
               /\ asyncQueue' = Append(asyncQueue, e)
               /\ UNCHANGED <<executions, vmRows, vms, warmPool, nextVM,
                              activeExecutions, activeExecs, dispatched>>
         /\ (result[e] = 202 /\ executions[e].Status = "absent"
                             /\ executions'[e].Status # "absent") =>
               /\ asyncQueue # <<>>
               /\ Head(asyncQueue) = e
               /\ asyncQueue' = Tail(asyncQueue)
               /\ executions'[e].Status = "pending" ]_vars

\* C14 witness: an accepted asynchronous request waits in the queue with no
\* row yet, and another one has been taken up by a worker and dispatched.
C14_Witness ==
    /\ \E e \in ExecIds :
          result[e] = 202 /\ pc[e] = "queued" /\ executions[e].Status = "absent"
    /\ \E e \in ExecIds : result[e] = 202 /\ e \in dispatched

\* C15: an asynchronous submission made while the queue holds asyncQueueSize
\* requests returns (nil, err) at once, queues nothing and creates no
\* execution row, VM or index entry; the queue never exceeds its capacity.
C15_QueueFullRejected ==
    [][ /\ Len(asyncQueue') <= asyncQueueSize
        /\ (nextExec' = nextExec + 1 /\ Len(asyncQueue) = asyncQueueSize) =>
              /\ result'[nextExec'] = NilResult
              /\ pc'[nextExec'] = "done"
              /\ UNCHANGED <<asyncQueue, executions, vmRows, vms, warmPool, nextVM,
                             activeExecutions, activeExecs>> ]_vars

\* C15 witness: a submission was rejected while the queue was full and has no
\* execution row.
C15_Witness ==
    /\ Len(asyncQueue) = asyncQueueSize
    /\ \E e \in QueueIds :
          result[e] = NilResult /\ pc[e] = "done" /\ executions[e].Status = "absent"

\* C16: for an id handed out by schedule, get_result answers processing (102)
\* while the execution is not terminal and the persisted terminal row
\* otherwise.
C16_GetResultProcessingOrTerminal ==
    \A e \in ExecIds :
        (result[e] # NoResult /\ result[e] # NilResult) =>
            IF IsTerminal(executions[e])
            THEN /\ GetExecutionResult(e).StatusCode = 200
                 /\ GetExecutionResult(e).Output = executions[e].Logs
                 /\ GetExecutionResult(e).ErrorMessage = executions[e].Error
            ELSE GetExecutionResult(e).StatusCode = 102

\* C17: a synchronous and an asynchronous invocation that were both dispatched,
\* have both run to their end and met the same agent behaviour (the same
\* reports) have rows with the same status and output, once the synchronous
\* row is terminal.
C17_SyncAsyncSameTerminalRow ==
    \A e1, e2 \in ExecIds :
        ( /\ ctx[e1].Sync /\ ~ctx[e2].Sync
          /\ e1 \in dispatched /\ e2 \in dispatched
          /\ pc[e1] = "done" /\ pc[e2] = "done"
          /\ reports[e1] = reports[e2]
          /\ lastReport[e1] = lastReport[e2]
          /\ IsTerminal(executions[e1]) )
        => /\ executions[e2].Status = executions[e1].Status
           /\ executions[e2].Logs = executions[e1].Logs

\* C18: when GetVM fails, the row that was saved pending is saved failed with
\* the reason and the end time, the request never enters the active index, a
\* synchronous caller gets the error, and no VM is touched; the row stays so.
C18_LeaseFailureMarksFailed ==
    /\ [][\A e \in ExecIds :
            (pc[e] = "lease" /\ pc'[e] = "done") =>
               /\ executions[e].Status = "pending"
               /\ executions'[e].Status = "failed"
               /\ executions'[e].Error = "Failed to allocate VM"
               /\ executions'[e].EndTime = now
               /\ e \notin activeExecutions'
               /\ activeExecs'[e] = NoVMID
               /\ (ctx[e].Sync => result'[e] = NilResult)
               /\ UNCHANGED <<vmRows, vms, warmPool, nextVM>>]_vars
    /\ [](\A e \in ExecIds :
            (pc[e] = "done" /\ ctx[e].VMID = NoVMID /\ executions[e].Status # "absent") =>
               /\ executions[e].Status = "failed"
               /\ e \notin activeExecutions)

\* C18 witness: an invocation ended at the failed lease: no VM, row failed.
C18_Witness ==
    \E e \in ExecIds :
        /\ pc[e] = "done"
        /\ ctx[e].VMID = NoVMID
        /\ executions[e].Status = "failed"
        /\ executions[e].Error = "Failed to allocate VM"

\* C19: while the function has no row in the registry, no request id is made,
\* nothing is queued and no execution row is created; the schedule call that
\* is answered "function not found" changes no execution, queue, VM or index
\* state.
C19_UnknownFunctionFailsFast ==
    [][ /\ ~functionRow =>
              /\ nextExec' = nextExec
              /\ Len(asyncQueue') <= Len(asyncQueue)
              /\ \A e \in ExecIds :
                    executions[e].Status = "absent" => executions'[e].Status = "absent"
        /\ scheduleNotFound' # scheduleNotFound =>
              /\ ~functionRow
              /\ scheduleNotFound' = scheduleNotFound + 1
              /\ UNCHANGED <<executions, vmRows, vms, warmPool, nextVM, asyncQueue,
                             nextExec, activeExecutions, activeExecs, pc, result>> ]_vars

\* C19 witness: the function was deleted after an invocation of it, and a
\* later schedule call was answered "function not found".
C19_Witness ==
    /\ ~functionRow
    /\ scheduleNotFound > 0
    /\ nextExec > 0
    /\ nextExec < MaxExec

\* C20: an accepted asynchronous request whose worker ended without the
\* request reaching an agent has a row in failed state that carries the error.
C20_WorkerFailureRecorded ==
    \A e \in ExecIds :
        (result[e] = 202 /\ pc[e] = "done" /\ e \notin dispatched) =>
            /\ executions[e].Status = "failed"
            /\ executions[e].Error # ""

\* C21: every execution whose row is running has an entry (execution id ->
\* VM id) in the active-execution index of the state manager.
C21_RunningExecutionIndexed ==
    \A e \in ExecIds :
        executions[e].Status = "running" => activeExecs[e] # NoVMID

\* C22: a VM that a running execution references is busy, and a VM that is
\* busy is held by an invocation that is still under way (its goroutine has
\* not ended, or its row is running).
C22_BusyIffRunningExecution ==
    \A v \in 1..nextVM :
        /\ (\E e \in ExecIds : executions[e].Status = "running" /\ executions[e].VMID = v)
              => vmRows[v].Status = "busy"
        /\ vmRows[v].Status = "busy"
              => \E e \in ExecIds :
                    /\ ctx[e].VMID = v
                    /\ (pc[e] # "done" \/ executions[e].Status = "running")

\* C24: every completed execution has an end time that is not before its
\* start time and a duration equal to end time minus start time.
C24_DurationIsEndMinusStart ==
    \A e \in ExecIds :
        executions[e].Status = "completed" =>
            /\ executions[e].EndTime >= executions[e].StartTime
            /\ executions[e].Duration = executions[e].EndTime - executions[e].StartTime

C30_FailedDispatchVMTerminated ==
    \A e \in ExecIds :
        ( /\ pc[e] = "done"
          /\ ctx[e].VMID # NoVMID
          /\ e \notin dispatched )
        => /\ vmRows[ctx[e].VMID].Status = "absent"
           /\ ctx[e].VMID \notin vms
           /\ \A i \in 1..Len(warmPool) : warmPool[i] # ctx[e].VMID

\* VMs whose persisted row has the given status
VMsWithStatus(status) == {v \in VMIds : vmRows[v].Status = status}

\* C23: in the closed system without failures, the VMs created are the live
\* VMs plus the terminated ones (those whose row was deleted), and the live
\* VMs are the busy plus the ready ones.
C23_PoolConservation ==
    /\ nextVM = Cardinality(vms)
                + Cardinality({v \in 1..nextVM : vmRows[v].Status = "absent"})
    /\ Cardinality(vms) = Cardinality(VMsWithStatus("busy"))
                          + Cardinality(VMsWithStatus("ready"))

\* C23 witness: VMs have been created, one was terminated, and there are busy
\* and ready VMs alive.
C23_Witness ==
    /\ \E v \in 1..nextVM : v \notin vms /\ vmRows[v].Status = "absent"
    /\ VMsWithStatus("busy") # {}
    /\ VMsWithStatus("ready") # {}

\* C25: a ReturnVM call for a VM whose row is busy leaves the VM ready at the
\* tail of the warm pool or, with the pool at capacity, terminated (row and
\* VMInstance gone); a ReturnVM call for an id without a row changes nothing.
C25_ReturnVMContract ==
    [][\A v \in VMIds :
         (held'.left[v] = held.left[v] - 1) =>
            /\ vmRows[v].Status = "absent" => UNCHANGED <<vmRows, vms, warmPool, nextVM>>
            /\ vmRows[v].Status = "busy" =>
                  \/ /\ Len(warmPool) < warmPoolSize
                     /\ vmRows'[v].Status = "ready"
                     /\ warmPool' = Append(warmPool, v)
                  \/ /\ Len(warmPool) = warmPoolSize
                     /\ vmRows'[v].Status = "absent"
                     /\ v \notin vms'
                     /\ warmPool' = warmPool]_vars

\* C26: terminating any live VM removes it from m.vms and deletes its row, and
\* a second terminateVM on the same id returns no error and changes nothing.
C26_TerminateIdempotent ==
    \A v \in vms :
        LET S1 == terminateVM(v, VMState)
        IN  /\ v \notin S1.vms
            /\ S1.db[v].Status = "absent"
            /\ terminateVM(v, S1) = S1
            /\ ~terminateVM_NotFound(v, S1)

\* C27: no two rows of the functions table share a name, whatever the
\* interleaving of the registrations; a registration that fails leaves the
\* table and the directories of the other functions as they were and leaves
\* no directory of its own.
C27_FunctionNamesUnique ==
    /\ [](\A f1, f2 \in functionsTable : f1.Name = f2.Name => f1 = f2)
    /\ [][\A c \in RegistrationIds :
            (registrations[c].Status = 0 /\ registrations'[c].Status = 500) =>
               /\ functionsTable' = functionsTable
               /\ c \notin storage'
               /\ storage' \ {c} = storage \ {c}]_vars

\* C27 witness: two registrations of one name ran concurrently; both passed
\* the lookup, one was stored and the other failed at the insert.
C27_Witness ==
    \E c \in RegistrationIds :
        /\ registrations[c].Error = "UNIQUE constraint failed"
        /\ c \notin storage
        /\ \E f \in functionsTable : f.Name = registrations[c].Name /\ f.ID # c

\* C28: a registration request whose body is malformed or has no name is
\* answered 400 and leaves no directory and no row.
C28_InvalidBodyRejected ==
    \A c \in RegistrationIds :
        (registrations[c].pc = "done" /\ registrations[c].Name = "") =>
            /\ registrations[c].Status = 400
            /\ c \notin storage
            /\ \A f \in functionsTable : f.ID # c

\* C31: when the POST to the agent returns an error or a response with a
\* status other than 2xx, the execution row is saved failed and the goroutine
\* does not enter the polling loop.
C31_DispatchFailedMarksFailed ==
    [][\A e \in ExecIds :
         (pc[e] = "post" /\ pc'[e] # "post" /\ e \notin dispatched') =>
            /\ executions'[e].Status = "failed"
            /\ pc'[e] # "poll"]_vars

\* C32: POST /execute is sent at most once per execution id, and a step that
\* leaves an execution failed or timed out never puts it back before the POST.
C32_DispatchedAtMostOnce ==
    /\ [](\A e \in ExecIds : posts[e] <= 1)
    /\ [][\A e \in ExecIds :
            pc[e] \in {"poll", "cleanup", "done"} =>
                pc'[e] \in {"poll", "cleanup", "done"}]_vars
    /\ [](\A i, j \in 1..Len(asyncQueue) : asyncQueue[i] = asyncQueue[j] => i = j)

\* C32 witness: both executions were dispatched, one failed at the POST and the
\* other timed out waiting, and each was posted once.
C32_Witness ==
    \E e1, e2 \in ExecIds :
        /\ pc[e1] = "done" /\ executions[e1].Status = "failed" /\ posts[e1] = 1
        /\ pc[e2] = "done" /\ executions[e2].Status = "timeout" /\ posts[e2] = 1

\* C33: a warm pool holding fewer than warmPoolSize VMs is eventually full
\* again once leases stop and VM creation succeeds, and one iteration of the
\* refill task creates at most one VM and adds at most one VM to the pool.
C33_RefillTopsUpPool ==
    /\ (Len(warmPool) < warmPoolSize) ~> (Len(warmPool) = warmPoolSize)
    /\ [][(refill = "create" /\ refill' = "wait") =>
            /\ nextVM' \in {nextVM, nextVM + 1}
            /\ Len(warmPool') \in {Len(warmPool), Len(warmPool) + 1}]_vars

\* C33 witness: the pool is full again although a lease has taken a VM out of
\* it: one VM more than warmPoolSize was created and one is busy.
C33_Witness ==
    /\ Len(warmPool) = warmPoolSize
    /\ nextVM = warmPoolSize + 1
    /\ \E v \in VMIds : vmRows[v].Status = "busy"

\* C34: when a step of createVM has failed, the call returns an error and
\* nothing of that VM is left: no directory, no process, no entry in m.vms and
\* no row.
C34_FailedCreateTornDown ==
    (creating.pc = "returned" /\ creating.failedAt # "none") =>
        /\ creating.err
        /\ creating.id \notin vmDirs
        /\ creating.id \notin vmProcs
        /\ creating.id \notin vms
        /\ vmRows[creating.id].Status = "absent"

\* C35: an agent whose POST of the result was not answered 200 (a 5xx, or no
\* answer at all) has posted it again before it gives up.
C35_AgentRetriesDelivery ==
    \A e \in ExecIds :
        (agent[e].pc \in {"report", "done"} /\ agent[e].response \in {500, NoResponse}) =>
            agent[e].attempts >= 2

\* C36: no VM id is in the warm pool twice, and the goroutine of an execution
\* does not release its VM when the timeout monitor has released it already.
C36_NoDoubleRelease ==
    /\ [](\A i, j \in 1..Len(warmPool) : warmPool[i] = warmPool[j] => i = j)
    /\ [][\A e \in ExecIds :
            (pc[e] = "poll" /\ pc'[e] = "cleanup") => e \notin monitored]_vars

C38_TerminatedRowStaysDeleted ==
    [][\A v \in 1..nextVM :
         vmRows[v].Status = "absent" => vmRows'[v].Status = "absent"]_vars

\* C39: every Lock call on the scheduler mutex or on the VM-manager mutex
\* returns: no goroutine stays at a Lock call for ever (a goroutine leaves a
\* Lock call only by being given the mutex).
C39_LockRequestsGranted ==
    \A t \in Threads : []<>(\A l \in Locks : ~Requests(t, l))

\* C39 witness: the monitor holds the scheduler mutex and, inside ReturnVM, the
\* VM-manager mutex, while an invocation waits for the first and the refiller
\* for the second.
C39_Witness ==
    /\ mu["scheduler"] = "monitor"
    /\ mu["vm"] = "monitor"
    /\ Requests("invoke1", "scheduler")
    /\ Requests("getResult", "scheduler")
    /\ Requests("refill", "vm")

\* C40: a request to a function, execution or VM route (the agents' callback
\* /api/vms/register apart) that carries no Bearer key that is stored, unexpired
\* and unrevoked is answered 401 and its handler does not run.
C40_UnauthenticatedRejected ==
    (served.route \in {"functions", "executions", "vms"} /\ served.key # "valid") =>
        /\ served.status = 401
        /\ ~served.handler
====
